---- MODULE Spec2Model ----
(***************************************************************************)
(* Model of src/google/protobuf/compiler/rust/oneof.cc: the Rust code      *)
(* generator for one oneof group.                                          *)
(*                                                                         *)
(* Three specifications share the variables:                               *)
(*   SpecTypes  the type mapper (RsTypeNameView / RsTypeNameMut) applied   *)
(*              to one field of every kind;                                *)
(*   Spec       one generation run: GenerateOneofDefinition,               *)
(*              GenerateOneofAccessors, GenerateOneofExternC,              *)
(*              GenerateOneofThunkCc on one oneof descriptor;              *)
(*   SpecRun    the generated accessors executing against the kernel that  *)
(*              owns the oneof's storage.                                  *)
(*                                                                         *)
(* Emitted text is modelled by its structure: an enum is a sequence of     *)
(* variants (name, payload type, discriminant), a match is a sequence of   *)
(* arms.  "Not emitted" is the empty sequence, "emitted" a one-element     *)
(* sequence holding the emitted item.                                      *)
(***************************************************************************)
EXTENDS Integers, Sequences, FiniteSets, TLC

VARIABLES
    oneof,          \* the OneofDescriptor handed to the generator
    accessor_case,  \* the AccessorCase the accessors are generated for
    pc,             \* position of the generation run
    out,            \* what has been emitted so far
    active,         \* kernel: the oneof case (0 or the active field's number)
    value,          \* kernel: the value held by the active member (0 if none)
    result,         \* the last mapper application / accessor call
    panicked        \* a generated accessor reached a failing unwrap()

vars == <<oneof, accessor_case, pc, out, active, value, result, panicked>>

----------------------------------------------------------------------------
(* Bounds *)

\* longest oneof (number of member fields)
MaxFields == 2
\* largest non-zero value the kernel stores in a member
MaxValue == 1

----------------------------------------------------------------------------
(* The descriptor: collaborators of oneof.cc *)

\* The fields the enclosing message declares, by field number: number n is
\* named MsgFieldNames[n].  Names and numbers are unique within a message.
MsgFieldNames == <<"email", "type", "phone", "user_id">>

FieldNumbers == 1..Len(MsgFieldNames)

\* RustFieldType (rust_field_type.h); the switch labels of both mappers.
Primitives == {"INT32", "INT64", "UINT32", "UINT64", "FLOAT", "DOUBLE", "BOOL"}

RustFieldTypes == Primitives \cup {"BYTES", "STRING", "MESSAGE", "ENUM"}

\* A value of the enumeration that is none of its enumerators.
UnknownKind == "UNKNOWN"

AllKinds == RustFieldTypes \cup {UnknownKind}

\* Kinds of the generation runs over whole oneofs: a primitive, a borrowed
\* sequence, a nested aggregate, and a value outside the enumeration.
GenKinds == {"INT32", "STRING", "MESSAGE", UnknownKind}

\* Kinds of the runs of the generated accessors: a scalar (its _mut accessor
\* returns an optional entry) and a message (its _mut returns the Mut).
RunKinds == {"INT32", "MESSAGE"}

AccessorCases == {"OWNED", "MUT", "VIEW"}

MkField(n, k, c) ==
    [name |-> MsgFieldNames[n], number |-> n, kind |-> k, has_ctype |-> c]

FieldsOver(kinds) ==
    {MkField(n, k, c) : n \in FieldNumbers, k \in kinds, c \in BOOLEAN}

\* Sequences of at most len fields with pairwise distinct numbers.
FieldSeqs(kinds, len) ==
    {s \in UNION {[1..l -> FieldsOver(kinds)] : l \in 0..len} :
        \A i, j \in DOMAIN s : i # j => s[i].number # s[j].number}

OneofName == "contact"
MsgName == "Person"

MkOneof(fs) == [name |-> OneofName, msg |-> MsgName, fields |-> fs]

----------------------------------------------------------------------------
(* naming.h / cpp helpers *)

RustKeywords == {"type", "match", "fn"}

RsSafeName(name) == IF name \in RustKeywords THEN "r#" \o name ELSE name

CamelCase(name) ==
    CASE name = "email" -> "Email"
      [] name = "type" -> "Type"
      [] name = "phone" -> "Phone"
      [] name = "user_id" -> "UserId"
      [] name = "contact" -> "Contact"

OneofCaseRsName(field) == CamelCase(field.name)
OneofViewEnumRsName(o) == CamelCase(o.name)
OneofMutEnumRsName(o) == CamelCase(o.name) \o "Mut"
OneofCaseEnumRsName(o) == CamelCase(o.name) \o "Case"
ThunkName(o, op) == "__rust_proto_thunk__" \o o.msg \o "_" \o op \o "_" \o o.name
QualifiedClassName(o) == "::" \o o.msg

RsTypePath(field) ==
    CASE field.kind = "INT32" -> "i32"
      [] field.kind = "INT64" -> "i64"
      [] field.kind = "UINT32" -> "u32"
      [] field.kind = "UINT64" -> "u64"
      [] field.kind = "FLOAT" -> "f32"
      [] field.kind = "DOUBLE" -> "f64"
      [] field.kind = "BOOL" -> "bool"
      [] field.kind = "MESSAGE" -> "crate::Address"
      [] field.kind = "ENUM" -> "crate::Channel"
      [] OTHER -> ""

----------------------------------------------------------------------------
(* The type mapper *)

Returns(s) == [fatal |-> FALSE, type |-> s]
\* ABSL_LOG(FATAL): the process aborts, nothing is returned.
Fatal == [fatal |-> TRUE, type |-> ""]

\* Variant: the switch runs before the legacy flag is looked at.
RsTypeNameView_SwitchFirst(field) ==
    CASE field.kind \notin RustFieldTypes -> Fatal
      [] field.has_ctype -> Returns("")
      [] field.kind \in Primitives -> Returns(RsTypePath(field))
      [] field.kind = "BYTES" -> Returns("&'msg [u8]")
      [] field.kind = "STRING" -> Returns("&'msg ::__pb::ProtoStr")
      [] OTHER -> Returns("::__pb::View<'msg, " \o RsTypePath(field) \o ">")

RsTypeNameView(field) ==
    IF field.has_ctype THEN Returns("")
    ELSE CASE field.kind \in Primitives -> Returns(RsTypePath(field))
           [] field.kind = "BYTES" -> Returns("&'msg [u8]")
           [] field.kind = "STRING" -> Returns("&'msg ::__pb::ProtoStr")
           [] field.kind = "MESSAGE" ->
                Returns("::__pb::View<'msg, " \o RsTypePath(field) \o ">")
           [] field.kind = "ENUM" ->
                Returns("::__pb::View<'msg, " \o RsTypePath(field) \o ">")
           [] OTHER -> Fatal

\* Variant: no mutator type for message fields.
RsTypeNameMut_NoMessage(field) ==
    IF field.has_ctype \/ field.kind = "MESSAGE" THEN Returns("")
    ELSE CASE field.kind \in Primitives ->
                Returns("::__pb::PrimitiveMut<'msg, " \o RsTypePath(field) \o ">")
           [] field.kind = "BYTES" -> Returns("::__pb::BytesMut<'msg>")
           [] field.kind = "STRING" -> Returns("::__pb::ProtoStrMut<'msg>")
           [] field.kind = "ENUM" ->
                Returns("::__pb::Mut<'msg, " \o RsTypePath(field) \o ">")
           [] OTHER -> Fatal

RsTypeNameMut(field) ==
    IF field.has_ctype THEN Returns("")
    ELSE CASE field.kind \in Primitives ->
                Returns("::__pb::PrimitiveMut<'msg, " \o RsTypePath(field) \o ">")
           [] field.kind = "BYTES" -> Returns("::__pb::BytesMut<'msg>")
           [] field.kind = "STRING" -> Returns("::__pb::ProtoStrMut<'msg>")
           [] field.kind = "MESSAGE" ->
                Returns("::__pb::Mut<'msg, " \o RsTypePath(field) \o ">")
           [] field.kind = "ENUM" ->
                Returns("::__pb::Mut<'msg, " \o RsTypePath(field) \o ">")
           [] OTHER -> Fatal

----------------------------------------------------------------------------
(* GenerateOneofDefinition *)

NotSetVariant ==
    [name |-> "not_set", type |-> "std::marker::PhantomData<&'msg ()>", number |-> 0]

NotSetCase == [name |-> "not_set", number |-> 0]

\* Variant: the loop does not skip fields without a view type.
RECURSIVE view_fields_NoSkip(_, _)
view_fields_NoSkip(o, i) ==
    IF i > Len(o.fields) THEN <<>>
    ELSE LET field == o.fields[i]
         IN  <<[name |-> OneofCaseRsName(field),
                type |-> RsTypeNameView(field).type,
                number |-> field.number]>> \o view_fields_NoSkip(o, i + 1)

\* The view_fields callback: what iterations i.. of its loop emit.
RECURSIVE view_fields(_, _)
view_fields(o, i) ==
    IF i > Len(o.fields) THEN <<>>
    ELSE LET field == o.fields[i]
             rs_type == RsTypeNameView(field).type
         IN  IF rs_type = "" THEN view_fields(o, i + 1)
             ELSE <<[name |-> OneofCaseRsName(field),
                     type |-> rs_type,
                     number |-> field.number]>> \o view_fields(o, i + 1)

\* Variant: the loop runs from the last field to the first.
RECURSIVE mut_fields_Reversed(_, _)
mut_fields_Reversed(o, i) ==
    IF i > Len(o.fields) THEN <<>>
    ELSE LET field == o.fields[i]
             rs_type == RsTypeNameMut(field).type
         IN  IF rs_type = "" THEN mut_fields_Reversed(o, i + 1)
             ELSE mut_fields_Reversed(o, i + 1) \o
                  <<[name |-> OneofCaseRsName(field),
                     type |-> rs_type,
                     number |-> field.number]>>

\* The mut_fields callback.
RECURSIVE mut_fields(_, _)
mut_fields(o, i) ==
    IF i > Len(o.fields) THEN <<>>
    ELSE LET field == o.fields[i]
             rs_type == RsTypeNameMut(field).type
         IN  IF rs_type = "" THEN mut_fields(o, i + 1)
             ELSE <<[name |-> OneofCaseRsName(field),
                     type |-> rs_type,
                     number |-> field.number]>> \o mut_fields(o, i + 1)

\* Variant: the entry's value is the loop index, not field.number().
RECURSIVE cases_IndexAsNumber(_, _)
cases_IndexAsNumber(o, i) ==
    IF i > Len(o.fields) THEN <<>>
    ELSE LET field == o.fields[i]
         IN  <<[name |-> OneofCaseRsName(field),
                number |-> i - 1]>> \o cases_IndexAsNumber(o, i + 1)

\* The cases callback.
RECURSIVE cases(_, _)
cases(o, i) ==
    IF i > Len(o.fields) THEN <<>>
    ELSE LET field == o.fields[i]
         IN  <<[name |-> OneofCaseRsName(field),
                number |-> field.number]>> \o cases(o, i + 1)

\* pub enum $view_enum_name$<'msg> { $view_fields$ not_set(..) = 0 }
ViewEnum(o) ==
    [name |-> OneofViewEnumRsName(o),
     variants |-> view_fields(o, 1) \o <<NotSetVariant>>]

\* pub enum $mut_enum_name$<'msg> { $mut_fields$ not_set(..) = 0 }
MutEnum(o) ==
    [name |-> OneofMutEnumRsName(o),
     variants |-> mut_fields(o, 1) \o <<NotSetVariant>>]

\* pub(super) enum $case_enum_name$ { $cases$ not_set = 0 }
CaseEnum(o) ==
    [name |-> OneofCaseEnumRsName(o),
     variants |-> cases(o, 1) \o <<NotSetCase>>]

\* A mapper call made while emitting the definitions hits ABSL_LOG(FATAL).
DefinitionAborts(o) ==
    \E i \in DOMAIN o.fields :
        RsTypeNameView(o.fields[i]).fatal \/ RsTypeNameMut(o.fields[i]).fatal

\* Variant: the mutator union is left out when the accessors are view-only.
EmittedDefinitions_NoMutForView(o) ==
    [view_enum |-> <<ViewEnum(o)>>,
     mut_enum |-> IF accessor_case = "VIEW" THEN <<>> ELSE <<MutEnum(o)>>,
     case_enum |-> <<CaseEnum(o)>>]

\* The three enums GenerateOneofDefinition emits.  It takes the context and
\* the oneof only: no accessor case reaches it.
EmittedDefinitions(o) ==
    [view_enum |-> <<ViewEnum(o)>>,
     mut_enum |-> <<MutEnum(o)>>,
     case_enum |-> <<CaseEnum(o)>>]

----------------------------------------------------------------------------
(* GenerateOneofAccessors *)

\* Variant: an arm for every field, a view type or not.
RECURSIVE view_cases_NoSkip(_, _)
view_cases_NoSkip(o, i) ==
    IF i > Len(o.fields) THEN <<>>
    ELSE LET field == o.fields[i]
         IN  <<[case_enum |-> OneofCaseEnumRsName(o),
                case |-> OneofCaseRsName(field),
                enum |-> OneofViewEnumRsName(o),
                variant |-> OneofCaseRsName(field),
                call |-> RsSafeName(field.name),
                unwrap |-> FALSE]>> \o view_cases_NoSkip(o, i + 1)

\* The view_cases callback: one match arm per field with a view type.
RECURSIVE view_cases(_, _)
view_cases(o, i) ==
    IF i > Len(o.fields) THEN <<>>
    ELSE LET field == o.fields[i]
             rs_type == RsTypeNameView(field).type
         IN  IF rs_type = "" THEN view_cases(o, i + 1)
             ELSE <<[case_enum |-> OneofCaseEnumRsName(o),
                     case |-> OneofCaseRsName(field),
                     enum |-> OneofViewEnumRsName(o),
                     variant |-> OneofCaseRsName(field),
                     call |-> RsSafeName(field.name),
                     unwrap |-> FALSE]>> \o view_cases(o, i + 1)

\* Variant: an arm for every field, a mutator type or not.
RECURSIVE mut_cases_NoSkip(_, _)
mut_cases_NoSkip(o, i) ==
    IF i > Len(o.fields) THEN <<>>
    ELSE LET field == o.fields[i]
         IN  <<[case_enum |-> OneofCaseEnumRsName(o),
                case |-> OneofCaseRsName(field),
                enum |-> OneofMutEnumRsName(o),
                variant |-> OneofCaseRsName(field),
                call |-> field.name \o "_mut",
                unwrap |-> TRUE]>> \o mut_cases_NoSkip(o, i + 1)

\* Variant: every arm calls the _mut accessor of the group's first field.
RECURSIVE mut_cases_FirstFieldMut(_, _)
mut_cases_FirstFieldMut(o, i) ==
    IF i > Len(o.fields) THEN <<>>
    ELSE LET field == o.fields[i]
             rs_type == RsTypeNameMut(field).type
         IN  IF rs_type = "" THEN mut_cases_FirstFieldMut(o, i + 1)
             ELSE <<[case_enum |-> OneofCaseEnumRsName(o),
                     case |-> OneofCaseRsName(field),
                     enum |-> OneofMutEnumRsName(o),
                     variant |-> OneofCaseRsName(field),
                     call |-> o.fields[1].name \o "_mut",
                     unwrap |-> TRUE]>> \o mut_cases_FirstFieldMut(o, i + 1)

\* The mut_cases callback: the arm calls <field>_mut().try_into_mut().unwrap().
RECURSIVE mut_cases(_, _)
mut_cases(o, i) ==
    IF i > Len(o.fields) THEN <<>>
    ELSE LET field == o.fields[i]
             rs_type == RsTypeNameMut(field).type
         IN  IF rs_type = "" THEN mut_cases(o, i + 1)
             ELSE <<[case_enum |-> OneofCaseEnumRsName(o),
                     case |-> OneofCaseRsName(field),
                     enum |-> OneofMutEnumRsName(o),
                     variant |-> OneofCaseRsName(field),
                     call |-> field.name \o "_mut",
                     unwrap |-> TRUE]>> \o mut_cases(o, i + 1)

\* pub fn $oneof_name$(&self): match on the thunk's result, view_cases, then
\* the default arm.
getter(o) ==
    <<[fn |-> RsSafeName(o.name),
       returns |-> OneofViewEnumRsName(o),
       case_thunk |-> ThunkName(o, "case"),
       arms |-> view_cases(o, 1),
       default |-> <<[enum |-> OneofViewEnumRsName(o), variant |-> "not_set"]>>]>>

\* pub fn $oneof_name$_mut(&mut self): nothing for AccessorCase::VIEW.
getter_mut(o, ac) ==
    IF ac = "VIEW" THEN <<>>
    ELSE <<[fn |-> RsSafeName(o.name) \o "_mut",
            returns |-> OneofMutEnumRsName(o),
            case_thunk |-> ThunkName(o, "case"),
            arms |-> mut_cases(o, 1),
            default |-> <<[enum |-> OneofMutEnumRsName(o), variant |-> "not_set"]>>]>>

\* view_cases runs for every accessor case, mut_cases only where getter_mut
\* emits its template.
AccessorsAbort(o, ac) ==
    \E i \in DOMAIN o.fields :
        \/ RsTypeNameView(o.fields[i]).fatal
        \/ ac # "VIEW" /\ RsTypeNameMut(o.fields[i]).fatal

----------------------------------------------------------------------------
(* GenerateOneofExternC, GenerateOneofThunkCc *)

\* fn $case_thunk$(raw_msg: RawMessage) -> $Msg$_::$case_enum_rs_name$;
ExternC(o) ==
    <<[case_thunk |-> ThunkName(o, "case"),
       returns |-> OneofCaseEnumRsName(o)]>>

\* $QualifiedMsg$::$case_enum_name$ $case_thunk$($QualifiedMsg$* msg)
\*   { return msg->$oneof_name$_case(); }
ThunkCc(o) ==
    <<[case_thunk |-> ThunkName(o, "case"),
       returns |-> QualifiedClassName(o) \o "::" \o OneofCaseEnumRsName(o),
       forwards |-> o.name \o "_case"]>>

----------------------------------------------------------------------------
(* One generation run *)

NothingEmitted ==
    [view_enum |-> <<>>, mut_enum |-> <<>>, case_enum |-> <<>>,
     getter |-> <<>>, getter_mut |-> <<>>, extern_c |-> <<>>, thunk_cc |-> <<>>,
     done |-> {}]

KernelIdle ==
    /\ active = 0
    /\ value = 0
    /\ result = <<>>
    /\ panicked = FALSE

\* The descriptors of the generation runs: every oneof of up to MaxFields
\* fields over GenKinds, and every shorter one over all kinds.
GenOneofs ==
    {MkOneof(fs) : fs \in FieldSeqs(GenKinds, MaxFields)
                          \cup FieldSeqs(AllKinds, MaxFields - 1)}

Init ==
    /\ oneof \in GenOneofs
    /\ accessor_case \in AccessorCases
    /\ pc = "generating"
    /\ out = NothingEmitted
    /\ KernelIdle

GenerateOneofDefinition ==
    /\ pc = "generating"
    /\ "definition" \notin out.done
    /\ IF DefinitionAborts(oneof)
       THEN /\ pc' = "aborted"
            /\ out' = out
       ELSE LET d == EmittedDefinitions(oneof)
            IN  /\ pc' = pc
                /\ out' = [out EXCEPT !.view_enum = d.view_enum,
                                      !.mut_enum = d.mut_enum,
                                      !.case_enum = d.case_enum,
                                      !.done = @ \cup {"definition"}]
    /\ UNCHANGED <<oneof, accessor_case, active, value, result, panicked>>

GenerateOneofAccessors ==
    /\ pc = "generating"
    /\ "accessors" \notin out.done
    /\ IF AccessorsAbort(oneof, accessor_case)
       THEN /\ pc' = "aborted"
            /\ out' = out
       ELSE /\ pc' = pc
            /\ out' = [out EXCEPT !.getter = getter(oneof),
                                  !.getter_mut = getter_mut(oneof, accessor_case),
                                  !.done = @ \cup {"accessors"}]
    /\ UNCHANGED <<oneof, accessor_case, active, value, result, panicked>>

GenerateOneofExternC ==
    /\ pc = "generating"
    /\ "extern_c" \notin out.done
    /\ out' = [out EXCEPT !.extern_c = ExternC(oneof),
                          !.done = @ \cup {"extern_c"}]
    /\ UNCHANGED <<oneof, accessor_case, pc, active, value, result, panicked>>

GenerateOneofThunkCc ==
    /\ pc = "generating"
    /\ "thunk_cc" \notin out.done
    /\ out' = [out EXCEPT !.thunk_cc = ThunkCc(oneof),
                          !.done = @ \cup {"thunk_cc"}]
    /\ UNCHANGED <<oneof, accessor_case, pc, active, value, result, panicked>>

Next ==
    \/ GenerateOneofDefinition
    \/ GenerateOneofAccessors
    \/ GenerateOneofExternC
    \/ GenerateOneofThunkCc

Spec == Init /\ [][Next]_vars

----------------------------------------------------------------------------
(* The type mapper applied to one field *)

InitTypes ==
    /\ oneof \in {MkOneof(<<f>>) : f \in FieldsOver(AllKinds)}
    /\ accessor_case \in {"OWNED"}
    /\ pc = "mapping"
    /\ out = NothingEmitted
    /\ KernelIdle

\* The outcome of one mapper call: its return value, or the abort.
Outcome(fn, ret) == <<[fn |-> fn, fatal |-> ret.fatal, type |-> ret.type]>>

ApplyRsTypeNameView ==
    /\ pc = "mapping"
    /\ LET ret == RsTypeNameView(oneof.fields[1])
       IN  /\ result' = Outcome("RsTypeNameView", ret)
           /\ pc' = IF ret.fatal THEN "aborted" ELSE pc
    /\ UNCHANGED <<oneof, accessor_case, out, active, value, panicked>>

ApplyRsTypeNameMut ==
    /\ pc = "mapping"
    /\ LET ret == RsTypeNameMut(oneof.fields[1])
       IN  /\ result' = Outcome("RsTypeNameMut", ret)
           /\ pc' = IF ret.fatal THEN "aborted" ELSE pc
    /\ UNCHANGED <<oneof, accessor_case, out, active, value, panicked>>

NextTypes ==
    \/ ApplyRsTypeNameView
    \/ ApplyRsTypeNameMut

SpecTypes == InitTypes /\ [][NextTypes]_vars

----------------------------------------------------------------------------
(* The generated accessors at run time *)

\* What one complete, non-aborting generation run emits.
Generated(o, ac) ==
    [view_enum |-> EmittedDefinitions(o).view_enum,
     mut_enum |-> EmittedDefinitions(o).mut_enum,
     case_enum |-> EmittedDefinitions(o).case_enum,
     getter |-> getter(o),
     getter_mut |-> getter_mut(o, ac),
     extern_c |-> ExternC(o),
     thunk_cc |-> ThunkCc(o),
     done |-> {"definition", "accessors", "extern_c", "thunk_cc"}]

\* Variant: the tag of the previous call is kept and reused.
TagQuery_Cached(g) == IF result # <<>> THEN result[1].tag ELSE active

\* Kernel: <oneof>_case() of the message, reached through the thunk the
\* accessor names: the extern "C" declaration and the thunk definition carry
\* the same symbol, and the thunk forwards to msg-><oneof_name>_case().
TagQuery(g) ==
    LET decl == out.extern_c[1]
        thunk == out.thunk_cc[1]
    IN  IF /\ g.case_thunk = decl.case_thunk
           /\ decl.case_thunk = thunk.case_thunk
           /\ thunk.forwards = oneof.name \o "_case"
        THEN active
        ELSE 0

\* Kernel: the field accessors generated elsewhere, found by their Rust name.
FieldOfGetter(name) ==
    CHOOSE i \in DOMAIN oneof.fields : RsSafeName(oneof.fields[i].name) = name

FieldOfMutGetter(name) ==
    CHOOSE i \in DOMAIN oneof.fields : oneof.fields[i].name \o "_mut" = name

\* self.<field>(): the member's value, the default when it is not the active one.
FieldRead(i) == IF active = oneof.fields[i].number THEN value ELSE 0

\* self.<field>_mut(): a message returns its Mut directly; a scalar returns an
\* entry that converts into a mutator only when the field is present.
FieldMut(i) ==
    LET field == oneof.fields[i]
    IN  IF field.kind = "MESSAGE" \/ active = field.number
        THEN <<[mut_of |-> field.number]>>
        ELSE <<>>

\* The discriminant the case enumeration gives the entry an arm matches on.
ArmMatches(arm, tag) ==
    \E k \in DOMAIN out.case_enum[1].variants :
        /\ out.case_enum[1].variants[k].name = arm.case
        /\ out.case_enum[1].variants[k].number = tag

\* match tag { arms..., _ => not_set }: the first arm that matches, 0 for
\* the default arm.
SelectedArm(g, tag) ==
    IF \E k \in DOMAIN g.arms : ArmMatches(g.arms[k], tag)
    THEN CHOOSE k \in DOMAIN g.arms :
            /\ ArmMatches(g.arms[k], tag)
            /\ \A j \in 1..(k - 1) : ~ArmMatches(g.arms[j], tag)
    ELSE 0

NotSetResult(g, tag) ==
    [fn |-> g.fn, tag |-> tag, enum |-> g.default[1].enum,
     variant |-> g.default[1].variant, payload |-> <<>>]

\* The body of the generated read accessor on a given tag.
ReadAccessor(g, tag) ==
    LET k == SelectedArm(g, tag)
    IN  IF k = 0 THEN NotSetResult(g, tag)
        ELSE [fn |-> g.fn, tag |-> tag, enum |-> g.arms[k].enum,
              variant |-> g.arms[k].variant,
              payload |-> <<FieldRead(FieldOfGetter(g.arms[k].call))>>]

\* The body of the generated mutate accessor on a given tag; payload <<>> in
\* a selected arm is the unwrap() of a failed conversion.
MutateAccessor(g, tag) ==
    LET k == SelectedArm(g, tag)
    IN  IF k = 0 THEN NotSetResult(g, tag)
        ELSE [fn |-> g.fn, tag |-> tag, enum |-> g.arms[k].enum,
              variant |-> g.arms[k].variant,
              payload |-> FieldMut(FieldOfMutGetter(g.arms[k].call))]

UnwrapFails(g, tag) ==
    /\ SelectedArm(g, tag) # 0
    /\ MutateAccessor(g, tag).payload = <<>>

InitRun ==
    /\ oneof \in {MkOneof(fs) : fs \in FieldSeqs(RunKinds, MaxFields)}
    /\ accessor_case \in AccessorCases
    /\ pc = "running"
    /\ out = Generated(oneof, accessor_case)
    /\ KernelIdle

\* Kernel: a member of the group is set (through any API of the message).
KernelSet ==
    /\ pc = "running" /\ ~panicked
    /\ \E i \in DOMAIN oneof.fields, v \in 1..MaxValue :
        /\ active' = oneof.fields[i].number
        /\ value' = v
    /\ UNCHANGED <<oneof, accessor_case, pc, out, result, panicked>>

\* Kernel: the group is cleared.
KernelClear ==
    /\ pc = "running" /\ ~panicked
    /\ active' = 0
    /\ value' = 0
    /\ UNCHANGED <<oneof, accessor_case, pc, out, result, panicked>>

CallGetter ==
    /\ pc = "running" /\ ~panicked
    /\ LET g == out.getter[1]
       IN  result' = <<ReadAccessor(g, TagQuery(g))>>
    /\ UNCHANGED <<oneof, accessor_case, pc, out, active, value, panicked>>

CallGetterMut ==
    /\ pc = "running" /\ ~panicked
    /\ out.getter_mut # <<>>
    /\ LET g == out.getter_mut[1]
           tag == TagQuery(g)
       IN  IF UnwrapFails(g, tag)
           THEN /\ panicked' = TRUE
                /\ result' = <<>>
           ELSE /\ panicked' = FALSE
                /\ result' = <<MutateAccessor(g, tag)>>
    /\ UNCHANGED <<oneof, accessor_case, pc, out, active, value>>

NextRun ==
    \/ KernelSet
    \/ KernelClear
    \/ CallGetter
    \/ CallGetterMut

SpecRun == InitRun /\ [][NextRun]_vars

----------------------------------------------------------------------------
(* Vocabulary of the properties, stated on the descriptor *)

Fields == oneof.fields

\* A field is bindable when its legacy-representation flag (ctype) is unset.
Bindable(i) == ~Fields[i].has_ctype

BindableCount == Cardinality({i \in DOMAIN Fields : Bindable(i)})

LegacyCount == Cardinality({i \in DOMAIN Fields : ~Bindable(i)})

DefinitionEmitted == "definition" \in out.done

AccessorsEmitted == "accessors" \in out.done

\* The emitted enums, once GenerateOneofDefinition has run.
EmittedEnums == {out.view_enum[1], out.mut_enum[1], out.case_enum[1]}

\* The variants of an enum but the last.
FieldVariants(e) == SubSeq(e.variants, 1, Len(e.variants) - 1)

\* The position in the oneof of the field a variant or arm is named after.
FieldNamed(name) == {i \in DOMAIN Fields : OneofCaseRsName(Fields[i]) = name}

\* <<name, discriminant>> of each variant, in order.
Shape(vs) == [k \in DOMAIN vs |-> <<vs[k].name, vs[k].number>>]

----------------------------------------------------------------------------
(* C1 *)

\* C1: with N bindable and M non-bindable fields the view union has exactly
\* N+1 variants and the case enumeration exactly N+M+1 entries; with N = 0
\* the view union holds not_set alone.
C1_VariantCounts ==
    DefinitionEmitted =>
        /\ Len(out.view_enum[1].variants) = BindableCount + 1
        /\ Len(out.case_enum[1].variants) = BindableCount + LegacyCount + 1
        /\ BindableCount = 0 =>
              /\ Len(out.view_enum[1].variants) = 1
              /\ out.view_enum[1].variants[1].name = "not_set"

C1_Witness ==
    /\ DefinitionEmitted
    /\ BindableCount >= 1
    /\ LegacyCount >= 1

----------------------------------------------------------------------------
(* C2 *)

\* C2: in the view union, the mutator union and the case enumeration every
\* field variant's discriminant is the field's declared number, not_set has
\* discriminant 0, and no two variants of one definition share a discriminant.
C2_Discriminants ==
    DefinitionEmitted =>
        \A e \in EmittedEnums :
            /\ \A k \in DOMAIN e.variants :
                  IF e.variants[k].name = "not_set"
                  THEN e.variants[k].number = 0
                  ELSE /\ FieldNamed(e.variants[k].name) # {}
                       /\ \A i \in FieldNamed(e.variants[k].name) :
                             e.variants[k].number = Fields[i].number
            /\ \E k \in DOMAIN e.variants : e.variants[k].name = "not_set"
            /\ \A k, l \in DOMAIN e.variants :
                  k # l => e.variants[k].number # e.variants[l].number

C2_Witness ==
    /\ DefinitionEmitted
    /\ Len(out.view_enum[1].variants) >= 3
    /\ Len(out.mut_enum[1].variants) >= 3
    /\ Len(out.case_enum[1].variants) >= 3

----------------------------------------------------------------------------
(* C3 *)

----------------------------------------------------------------------------
(* C6 *)

\* C6 (as claimed): the mutator union is emitted only where the binding
\* context supports mutation; for a view-only context GenerateOneofDefinition
\* emits the view union and the case enumeration but no mutator union.
C6_MutEnumOnlyWhereMutable ==
    DefinitionEmitted =>
        /\ out.view_enum # <<>>
        /\ out.case_enum # <<>>
        /\ out.mut_enum # <<>> <=> accessor_case # "VIEW"

\* C6 (amended): GenerateOneofDefinition emits all three definitions, the
\* mutator union included, whatever the accessor case; what is emitted only
\* where mutation is supported is the mutate accessor.
C6_MutEnumAlways ==
    /\ DefinitionEmitted =>
          /\ out.view_enum # <<>>
          /\ out.case_enum # <<>>
          /\ out.mut_enum # <<>>
          /\ out.mut_enum[1].name = OneofMutEnumRsName(oneof)
    /\ AccessorsEmitted => (out.getter_mut # <<>> <=> accessor_case # "VIEW")

C6_Witness ==
    /\ DefinitionEmitted
    /\ AccessorsEmitted
    /\ accessor_case = "VIEW"
    /\ out.getter_mut = <<>>
    /\ Len(out.mut_enum[1].variants) >= 2

----------------------------------------------------------------------------
(* C7 *)

\* C7: the mutator union has the shape of the view union: a field has a
\* variant in one iff it has one in the other, exactly the bindable fields
\* whatever their kind, with the same name, discriminant and order; every
\* field, bindable or not, has an entry in the case enumeration.
C7_SameShape ==
    DefinitionEmitted =>
        /\ Shape(out.mut_enum[1].variants) = Shape(out.view_enum[1].variants)
        /\ \A i \in DOMAIN Fields :
              /\ Bindable(i) <=>
                    \E k \in DOMAIN FieldVariants(out.view_enum[1]) :
                        out.view_enum[1].variants[k].name = OneofCaseRsName(Fields[i])
              /\ Bindable(i) <=>
                    \E k \in DOMAIN FieldVariants(out.mut_enum[1]) :
                        out.mut_enum[1].variants[k].name = OneofCaseRsName(Fields[i])
              /\ \E k \in DOMAIN FieldVariants(out.case_enum[1]) :
                    out.case_enum[1].variants[k].name = OneofCaseRsName(Fields[i])

\* A bindable message field next to a non-bindable field.
C7_Witness ==
    /\ DefinitionEmitted
    /\ \E i, j \in DOMAIN Fields :
          /\ Bindable(i) /\ Fields[i].kind = "MESSAGE"
          /\ ~Bindable(j)

----------------------------------------------------------------------------
(* C10 *)

ArmsMatchEnum(g, e) ==
    /\ {a.variant : a \in {g.arms[k] : k \in DOMAIN g.arms}}
          = {v.name : v \in {e.variants[k] : k \in DOMAIN FieldVariants(e)}}
    /\ \A k \in DOMAIN g.arms :
          /\ g.arms[k].enum = e.name
          /\ g.arms[k].case_enum = out.case_enum[1].name
          /\ \E c \in DOMAIN out.case_enum[1].variants :
                out.case_enum[1].variants[c].name = g.arms[k].case
          /\ g.arms[k].case = g.arms[k].variant
    /\ \A k, l \in DOMAIN g.arms : k # l => g.arms[k].case # g.arms[l].case
    /\ Len(g.default) = 1
    /\ g.default[1].enum = e.name
    /\ g.default[1].variant = "not_set"
    /\ \E k \in DOMAIN e.variants : e.variants[k].name = "not_set"

\* C10: the explicit arms of the read accessor are exactly the non-not_set
\* variants of the view union, those of the mutate accessor exactly the
\* non-not_set variants of the mutator union; every arm matches on an existing
\* case-enumeration entry and builds an existing variant; each accessor has
\* exactly one default arm, yielding not_set.
C10_AccessorsMatchDefinitions ==
    (DefinitionEmitted /\ AccessorsEmitted) =>
        /\ ArmsMatchEnum(out.getter[1], out.view_enum[1])
        /\ out.getter_mut # <<>> =>
              ArmsMatchEnum(out.getter_mut[1], out.mut_enum[1])

C10_Witness ==
    /\ DefinitionEmitted
    /\ AccessorsEmitted
    /\ out.getter_mut # <<>>
    /\ Len(out.getter_mut[1].arms) >= 1
    /\ LegacyCount >= 1

----------------------------------------------------------------------------
(* C8 *)

MapperApplied == result # <<>> /\ result[1].fn \in {"RsTypeNameView", "RsTypeNameMut"}

\* C8 (as claimed): for a kind outside the closed set both mappers end in the
\* fatal failure instead of returning a type or "unsupported"; for a kind
\* inside the set and an unset legacy flag they return a non-empty type.
C8_FatalOutsideClosedSet ==
    MapperApplied =>
        LET field == Fields[1]
        IN  /\ field.kind \notin RustFieldTypes =>
                  result[1].fatal /\ pc = "aborted"
            /\ (field.kind \in RustFieldTypes /\ ~field.has_ctype) =>
                  ~result[1].fatal /\ result[1].type # "" /\ pc # "aborted"

\* C8 (amended): the legacy flag is looked at first: with the flag set both
\* mappers return "unsupported" whatever the kind, without failing; with the
\* flag unset a kind outside the closed set is fatal and a kind inside it
\* yields a non-empty type.
C8_FatalOutsideClosedSetUnlessLegacy ==
    MapperApplied =>
        LET field == Fields[1]
        IN  /\ field.has_ctype =>
                  ~result[1].fatal /\ result[1].type = "" /\ pc # "aborted"
            /\ (~field.has_ctype /\ field.kind \notin RustFieldTypes) =>
                  result[1].fatal /\ pc = "aborted"
            /\ (~field.has_ctype /\ field.kind \in RustFieldTypes) =>
                  ~result[1].fatal /\ result[1].type # "" /\ pc # "aborted"

\* The mutable-view mapper has aborted on an out-of-set kind.
C8_Witness ==
    /\ MapperApplied
    /\ result[1].fn = "RsTypeNameMut"
    /\ Fields[1].kind = UnknownKind
    /\ ~Fields[1].has_ctype
    /\ pc = "aborted"

----------------------------------------------------------------------------
(* Vocabulary of the run-time properties *)

\* The field of the group with number t, if any.
FieldNumbered(t) == {i \in DOMAIN Fields : Fields[i].number = t}

\* Every tag: 0, each field number of the message, and one number beyond.
Tags == 0..(Len(MsgFieldNames) + 1)

\* What the read accessor is to yield on tag t.
ExpectedView(t) ==
    IF \E i \in FieldNumbered(t) : Bindable(i)
    THEN LET i == CHOOSE i \in FieldNumbered(t) : Bindable(i)
         IN  [fn |-> RsSafeName(oneof.name), tag |-> t,
              enum |-> OneofViewEnumRsName(oneof),
              variant |-> OneofCaseRsName(Fields[i]),
              payload |-> <<FieldRead(i)>>]
    ELSE [fn |-> RsSafeName(oneof.name), tag |-> t,
          enum |-> OneofViewEnumRsName(oneof),
          variant |-> "not_set", payload |-> <<>>]

\* What the mutate accessor is to yield on tag t: the mutator of field t.
ExpectedMut(t) ==
    IF \E i \in FieldNumbered(t) : Bindable(i)
    THEN LET i == CHOOSE i \in FieldNumbered(t) : Bindable(i)
         IN  [fn |-> RsSafeName(oneof.name) \o "_mut", tag |-> t,
              enum |-> OneofMutEnumRsName(oneof),
              variant |-> OneofCaseRsName(Fields[i]),
              payload |-> <<[mut_of |-> t]>>]
    ELSE [fn |-> RsSafeName(oneof.name) \o "_mut", tag |-> t,
          enum |-> OneofMutEnumRsName(oneof),
          variant |-> "not_set", payload |-> <<>>]

ReadResult == result # <<>> /\ result[1].fn = RsSafeName(oneof.name)

MutResult == result # <<>> /\ result[1].fn = RsSafeName(oneof.name) \o "_mut"

----------------------------------------------------------------------------
(* C4 *)

\* C4: on every tag t the read accessor yields the view-union variant of
\* field f wrapping f's own read accessor's result when t is the number of a
\* bindable field f, and not_set otherwise: for t = 0, for the number of a
\* legacy field, and for a number of no field of the group.
C4_ReadDispatch ==
    /\ \A t \in Tags : ReadAccessor(out.getter[1], t) = ExpectedView(t)
    /\ ReadResult =>
          /\ result[1].enum = ExpectedView(result[1].tag).enum
          /\ result[1].variant = ExpectedView(result[1].tag).variant
          /\ result[1].payload = <<>> <=> result[1].variant = "not_set"

\* A legacy field is active in the kernel and the read accessor, called in
\* that state, has reported not_set.
C4_Witness ==
    /\ ReadResult
    /\ active # 0
    /\ result[1].tag = active
    /\ \E i \in FieldNumbered(active) : ~Bindable(i)
    /\ result[1].variant = "not_set"
    /\ \E j \in DOMAIN Fields : Bindable(j)

----------------------------------------------------------------------------
(* C5 *)

\* C5: with the kernel keeping at most one member active and reporting its
\* number (or 0) as the tag, the mutate accessor never reaches a failing
\* unwrap: on the tag of a bindable field f it returns the mutator-union
\* variant of f holding f's mutator.
C5_UnwrapNeverFails ==
    /\ ~panicked
    /\ out.getter_mut # <<>> =>
          /\ ~UnwrapFails(out.getter_mut[1], TagQuery(out.getter_mut[1]))
          /\ MutateAccessor(out.getter_mut[1], active) = ExpectedMut(active)
    /\ MutResult => result[1] = ExpectedMut(result[1].tag)

\* The mutate accessor has returned the mutator of an active scalar field that
\* is not the first field of the group.
C5_Witness ==
    /\ MutResult
    /\ result[1].tag = active
    /\ \E i \in FieldNumbered(active) :
          /\ i > 1
          /\ Bindable(i)
          /\ Fields[i].kind = "INT32"
    /\ result[1].payload = <<[mut_of |-> active]>>

----------------------------------------------------------------------------
(* C9 *)

\* C9: every call of the read or the mutate accessor queries the tag anew:
\* it returns the variant of the tag the kernel reports at the time of the
\* call, never that of an earlier call, and a read accessor call leaves the
\* kernel's active member unchanged.
C9_NoCachedTag ==
    [][/\ CallGetter =>
             /\ result' = <<ExpectedView(active)>>
             /\ active' = active
             /\ value' = value
       /\ CallGetterMut =>
             /\ ~panicked'
             /\ result' = <<ExpectedMut(active)>>]_vars

\* An accessor has been called, and the kernel has since moved from the member
\* it reported to another one: the next call runs against a changed tag.
C9_Witness ==
    /\ result # <<>>
    /\ result[1].tag # 0
    /\ active # 0
    /\ active # result[1].tag
    /\ \E i \in FieldNumbered(active) : Bindable(i)

====
